---- MODULE Spec2Model ----
(***************************************************************************)
(* Model of script/trainer.py of nbclassify: the command line driver main, *)
(* the transactional scope session_scope, the class encoding               *)
(* (Common.get_codewords / Common.get_classification) and                  *)
(* TestAnn.export_results.                                                 *)
(*                                                                         *)
(* Numbers.  Network outputs and codeword entries are floats in the        *)
(* source; here they are fixed-point integers in tenths (1.0 is 10, -1.0   *)
(* is -10, 0.9 is 9).  An error threshold is kept in hundredths, so that   *)
(* (code - codeword[i])**2 < error reads (10 - x)^2 < error unchanged.     *)
(* Class names are the integers 1..MaxClasses, ordered as the strings are. *)
(***************************************************************************)
EXTENDS Integers, Sequences, FiniteSets, TLC

\* ---- bounds --------------------------------------------------------------
MaxClasses == 3
MaxSamples == 2

\* ---- fixed-point values ----------------------------------------------------
PosCode == 10
NegCode == 0 - 10
Names   == 1..MaxClasses
\* outputs a network can produce for one class: -1.0, 0.9, 1.0
Outputs == {NegCode, 9, PosCode}
\* values of --error: 0, 0.01, 0.02
Errors  == {0, 1, 2}
Tasks   == {"data", "ann", "test-ann", "classify"}

Range(s) == {s[i] : i \in DOMAIN s}

\* ---- sorted(classes) -------------------------------------------------------
RECURSIVE sorted(_)
sorted(S) ==
  IF S = {} THEN <<>>
  ELSE LET m == CHOOSE x \in S : \A y \in S : x <= y
       IN  <<m>> \o sorted(S \ {m})

\* ---- Common.get_codewords --------------------------------------------------
get_codewords_unsorted(classes, neg, pos) ==
  LET n == Cardinality(classes)
      s == sorted(classes)
  IN  [class_ \in classes |->
         LET i == CHOOSE i \in 1..n : s[n + 1 - i] = class_
         IN  [[k \in 1..n |-> neg] EXCEPT ![i] = pos]]

get_codewords(classes, neg, pos) ==
  LET n == Cardinality(classes)
      s == sorted(classes)
  IN  [class_ \in classes |->
         LET i == CHOOSE i \in 1..n : s[i] = class_
         IN  [[k \in 1..n |-> neg] EXCEPT ![i] = pos]]

\* ---- Common.get_classification ---------------------------------------------
\* tuples compare as Python tuples do: first the output, then the class name
TupleLess(a, b) == a[1] < b[1] \/ (a[1] = b[1] /\ a[2] < b[2])

RECURSIVE InsertDesc(_, _)
InsertDesc(t, s) ==
  IF s = <<>> THEN <<t>>
  ELSE IF TupleLess(Head(s), t) THEN <<t>> \o s
       ELSE <<Head(s)>> \o InsertDesc(t, Tail(s))

\* sorted(classes, reverse=True)
RECURSIVE sorted_reverse(_)
sorted_reverse(s) ==
  IF s = <<>> THEN <<>> ELSE InsertDesc(Head(s), sorted_reverse(Tail(s)))

\* the inner loop over one codeword, from index i on
RECURSIVE ClassMatches(_, _, _, _, _)
ClassMatches(cls, cw, codeword, err, i) ==
  IF i > Len(cw) THEN <<>>
  ELSE (IF cw[i] = PosCode /\ (cw[i] - codeword[i]) * (cw[i] - codeword[i]) < err
        THEN <<(<<codeword[i], cls>>)>> ELSE <<>>)
       \o ClassMatches(cls, cw, codeword, err, i + 1)

\* the outer loop over codewords.items(); the order of the items does not
\* reach the result, which is sorted afterwards
RECURSIVE AllMatches(_, _, _, _)
AllMatches(order, codewords_, codeword, err) ==
  IF order = <<>> THEN <<>>
  ELSE ClassMatches(Head(order), codewords_[Head(order)], codeword, err, 1)
       \o AllMatches(Tail(order), codewords_, codeword, err)

get_classification_le(codewords_, codeword, err) ==
  IF Cardinality(DOMAIN codewords_) # Len(codeword)
  THEN [exc |-> "ValueError", classes |-> <<>>]
  ELSE LET ts == sorted_reverse(AllMatches(sorted(DOMAIN codewords_),
                                           codewords_, codeword, err + 1))
       IN  [exc |-> "none", classes |-> [k \in 1..Len(ts) |-> ts[k][2]]]

get_classification(codewords_, codeword, err) ==
  IF Cardinality(DOMAIN codewords_) # Len(codeword)
  THEN [exc |-> "ValueError", classes |-> <<>>]
  ELSE LET ts == sorted_reverse(AllMatches(sorted(DOMAIN codewords_),
                                           codewords_, codeword, err))
       IN  [exc |-> "none", classes |-> [k \in 1..Len(ts) |-> ts[k][2]]]

\* ---- "%.3f" % (float(correct) / total), in thousandths ---------------------
Fraction3(correct_, total_) ==
  LET q == (1000 * correct_) \div total_
      r == (1000 * correct_) % total_
  IN  IF 2 * r > total_ \/ (2 * r = total_ /\ q % 2 = 1) THEN q + 1 ELSE q

\* ---- state -----------------------------------------------------------------
VARIABLES
  task, conf, output, db, error,   \* sys.argv[1] and the parsed args
  pc,                              \* position in main and its callees
  status,                          \* how the process ended
  exc,                             \* the exception in flight, "none" if none
  taskExc,                         \* the exception the task's work raised
  log,                             \* messages passed to logging.error
  reached,                         \* task methods that have been entered
  session, sessRaised,             \* calls made on the session; what the
                                   \* with-block (or the commit) raised
  classes, codewords,              \* result of the class query; its encoding
  test_data, annOut,               \* TestAnn.test_data; outputs of the network
  total, correct, fraction, fh,    \* locals of export_results; rows written
  class_expected, codeword, class_ann

argv == <<task, conf, output, error>>
hist == <<log, reached>>
sess == <<session, sessRaised>>
enc  == <<classes, codewords>>
net  == <<test_data, annOut>>
loop == <<total, correct, fraction, fh, class_expected, codeword, class_ann>>
vars == <<argv, db, pc, status, exc, taskExc, hist, sess, enc, net, loop>>

\* test data: a matrix of output rows of one width, over -1.0 and 1.0
RECURSIVE SeqsUpTo(_, _)
SeqsUpTo(S, n) ==
  IF n = 0 THEN {<<>>}
  ELSE SeqsUpTo(S, n - 1) \cup [1..n -> S]

TestDataSets ==
  UNION {{[set |-> TRUE, width |-> w, rows |-> r] :
            r \in SeqsUpTo([1..w -> {NegCode, PosCode}], MaxSamples)} :
         w \in 1..MaxClasses}

NoTestData == [set |-> FALSE, width |-> 0, rows |-> <<>>]

\* ---- main: parser.parse_args() has accepted the command line ---------------
Init ==
  /\ task \in Tasks
  /\ conf \in BOOLEAN /\ output \in BOOLEAN /\ db \in BOOLEAN
  /\ error \in Errors
  /\ task = "data" => conf /\ output /\ error = 1
  /\ task = "ann" => output /\ ~db /\ error = 1
  /\ task = "classify" => conf /\ db /\ ~output
  /\ pc = "main" /\ status = "running"
  /\ exc = "none" /\ taskExc = "none"
  /\ log = <<>> /\ reached = {}
  /\ session = <<>> /\ sessRaised = "none"
  /\ classes = {} /\ codewords = <<>>
  /\ test_data = NoTestData /\ annOut = 0
  /\ total = 0 /\ correct = 0 /\ fraction = <<>> /\ fh = <<>>
  /\ class_expected = <<>> /\ codeword = <<>> /\ class_ann = <<>>

\* an exception leaves the current statement: into the except clause of the
\* task's try statement when there is one, out of main otherwise
Propagate(e) ==
  /\ exc' = e
  /\ taskExc' = e
  /\ IF task = "data" THEN pc' = "data_except" /\ UNCHANGED status
     ELSE IF task = "ann" THEN pc' = "ann_except" /\ UNCHANGED status
     ELSE pc' = "done" /\ status' = "uncaught"

\* open_yaml(path): open(None) raises TypeError; a path may not be readable,
\* and get_object rejects a document that is not a dictionary
open_yaml(path) ==
  IF path THEN {"none", "IOError", "TypeError"} ELSE {"TypeError"}

Main ==
  /\ pc = "main"
  /\ pc' = CASE task = "data" -> "data_conf"
             [] task = "ann" -> "ann_conf"
             [] task = "test-ann" -> "test_conf"
             [] task = "classify" -> "cls_conf"
  /\ db' = IF task = "data" THEN TRUE ELSE db
  /\ UNCHANGED <<argv, status, exc, taskExc, hist, sess, enc, net, loop>>

\* ---- task data -------------------------------------------------------------
DataOpenYaml ==
  /\ pc = "data_conf"
  /\ \E r \in open_yaml(conf) :
       IF r = "none"
       THEN pc' = "data_new" /\ UNCHANGED <<status, exc, taskExc>>
       ELSE Propagate(r)
  /\ UNCHANGED <<argv, db, hist, sess, enc, net, loop>>

DataNew ==
  /\ pc = "data_new"
  /\ \E r \in {"none", "TypeError", "IOError"} :
       IF r = "none"
       THEN pc' = "sess_setup" /\ UNCHANGED <<status, exc, taskExc>>
       ELSE Propagate(r)
  /\ UNCHANGED <<argv, db, hist, sess, enc, net, loop>>

ExportWrite ==
  /\ pc = "export_images"
  /\ IF classes = {}
     THEN /\ pc' = "exit"
          /\ UNCHANGED <<status, exc, taskExc, codewords, fh>>
     ELSE \E r \in {"none", "ValueError"} :
            /\ codewords' = get_codewords(classes, NegCode, PosCode)
            /\ IF r = "none"
               THEN /\ fh' = [i \in 1..Cardinality(classes) |->
                                [image |-> sorted(classes)[i],
                                 out |-> codewords'[sorted(classes)[i]]]]
                    /\ pc' = "exit"
                    /\ UNCHANGED <<status, exc, taskExc>>
               ELSE Propagate(r) /\ UNCHANGED fh
  /\ UNCHANGED <<argv, db, hist, sess, classes, net, total, correct, fraction,
                 class_expected, codeword, class_ann>>

DataExcept ==
  /\ pc = "data_except"
  /\ log' = Append(log, exc)
  /\ pc' = "done" /\ status' = "uncaught"
  /\ UNCHANGED <<argv, db, exc, taskExc, reached, sess, enc, net, loop>>

\* ---- task ann --------------------------------------------------------------
AnnOpenYaml ==
  /\ pc = "ann_conf"
  /\ \E r \in open_yaml(conf) :
       IF r = "none"
       THEN pc' = "ann_new" /\ UNCHANGED <<status, exc, taskExc>>
       ELSE Propagate(r)
  /\ UNCHANGED <<argv, db, hist, sess, enc, net, loop>>

AnnNew ==
  /\ pc = "ann_new"
  /\ \E r \in {"none", "IOError"} :
       IF r = "none"
       THEN pc' = "ann_train" /\ UNCHANGED <<status, exc, taskExc>>
       ELSE Propagate(r)
  /\ UNCHANGED <<argv, db, hist, sess, enc, net, loop>>

\* MakeAnn.train: a missing file raises IOError, unreadable training data is
\* logged and ends the process with sys.exit(1), the library may fail
AnnTrain ==
  /\ pc = "ann_train"
  /\ reached' = reached \cup {"train"}
  /\ \E r \in {"none", "IOError", "ValueError", "Exception"} :
       CASE r = "none" ->
              pc' = "exit" /\ UNCHANGED <<status, exc, taskExc, log>>
         [] r = "ValueError" ->
              /\ log' = Append(log, r)
              /\ pc' = "done" /\ status' = "exit1"
              /\ UNCHANGED <<exc, taskExc>>
         [] OTHER -> Propagate(r) /\ UNCHANGED log
  /\ UNCHANGED <<argv, db, sess, enc, net, loop>>

AnnExcept ==
  /\ pc = "ann_except"
  /\ log' = Append(log, exc)
  /\ exc' = "none"
  /\ pc' = "exit"
  /\ UNCHANGED <<argv, db, status, taskExc, reached, sess, enc, net, loop>>

\* ---- session_scope ----------------------------------------------------------
\* create_engine, sessionmaker, MetaData.reflect: before the try statement
SessionSetup ==
  /\ pc = "sess_setup"
  /\ \E r \in {"none", "OperationalError"} :
       IF r = "none"
       THEN pc' = "sess_body" /\ UNCHANGED <<status, exc, taskExc>>
       ELSE Propagate(r)
  /\ UNCHANGED <<argv, db, hist, sess, enc, net, loop>>

\* the body of a with-block: read config.class_query, build the query, list
\* its rows.  An exception is thrown into the generator at its yield.
QueryBody ==
  /\ pc = "sess_body"
  /\ \E r \in {"none", "RuntimeError", "ValueError"} :
       IF r = "none"
       THEN /\ \E cs \in SUBSET Names : classes' = cs
            /\ pc' = "sess_commit"
            /\ UNCHANGED <<exc, taskExc, sessRaised>>
       ELSE /\ exc' = r /\ taskExc' = r /\ sessRaised' = r
            /\ pc' = "sess_rollback"
            /\ UNCHANGED classes
  /\ UNCHANGED <<argv, db, status, hist, session, codewords, net, loop>>

ExportBody == task = "data" /\ QueryBody

ExportResultsBody == task = "test-ann" /\ QueryBody

ClassifierBody == task = "classify" /\ QueryBody

SessionCommit ==
  /\ pc = "sess_commit"
  /\ \E r \in {"none", "CommitError"} :
       IF r = "none"
       THEN /\ session' = Append(session, "commit")
            /\ pc' = "sess_close"
            /\ UNCHANGED <<exc, taskExc, sessRaised>>
       ELSE /\ exc' = r /\ taskExc' = r /\ sessRaised' = r
            /\ pc' = "sess_rollback"
            /\ UNCHANGED session
  /\ UNCHANGED <<argv, db, status, hist, enc, net, loop>>

SessionRollback_skipped ==
  /\ pc = "sess_rollback"
  /\ pc' = "sess_close"
  /\ UNCHANGED <<argv, db, status, exc, taskExc, hist, sess, enc, net, loop>>

SessionRollback ==
  /\ pc = "sess_rollback"
  /\ session' = Append(session, "rollback")
  /\ pc' = "sess_close"
  /\ UNCHANGED <<argv, db, status, exc, taskExc, hist, sessRaised, enc, net,
                 loop>>

SessionClose ==
  /\ pc = "sess_close"
  /\ session' = Append(session, "close")
  /\ pc' = "with_exit"
  /\ UNCHANGED <<argv, db, status, exc, taskExc, hist, sessRaised, enc, net,
                 loop>>

\* control leaves the with statement: on to the next statement of the caller,
\* or the exception raised again by line 185 leaves it
WithExit ==
  /\ pc = "with_exit"
  /\ IF exc = "none"
     THEN /\ pc' = CASE task = "data" -> "export_images"
                     [] task = "test-ann" -> "er_open"
                     [] task = "classify" -> "cls_classify"
          /\ UNCHANGED <<status, exc, taskExc>>
     ELSE Propagate(exc)
  /\ UNCHANGED <<argv, db, hist, sess, enc, net, loop>>

\* ---- task test-ann -----------------------------------------------------------
TestOpenYaml ==
  /\ pc = "test_conf"
  /\ \E r \in open_yaml(conf) :
       IF r = "none"
       THEN pc' = "test_new" /\ UNCHANGED <<status, exc, taskExc>>
       ELSE Propagate(r)
  /\ UNCHANGED <<argv, db, hist, sess, enc, net, loop>>

TestNew ==
  /\ pc = "test_new"
  /\ \E r \in {"none", "IOError"} :
       IF r = "none"
       THEN pc' = "test_test" /\ UNCHANGED <<status, exc, taskExc>>
       ELSE Propagate(r)
  /\ UNCHANGED <<argv, db, hist, sess, enc, net, loop>>

\* TestAnn.test: loads the network and the test data and runs the network
\* over the data
TestTest ==
  /\ pc = "test_test"
  /\ reached' = reached \cup {"test"}
  /\ \E r \in {"none", "IOError", "exit1"} :
       CASE r = "none" ->
              /\ \E td \in TestDataSets : test_data' = td
              /\ \E k \in 1..MaxClasses : annOut' = k
              /\ pc' = "test_output"
              /\ UNCHANGED <<status, exc, taskExc, log>>
         [] r = "exit1" ->
              /\ log' = Append(log, "IOError")
              /\ pc' = "done" /\ status' = "exit1"
              /\ UNCHANGED <<exc, taskExc, net>>
         [] OTHER -> Propagate(r) /\ UNCHANGED <<log, net>>
  /\ UNCHANGED <<argv, db, sess, enc, loop>>

\* lines 158-161 and the first statement of export_results
TestOutput ==
  /\ pc = "test_output"
  /\ IF ~output
     THEN pc' = "exit" /\ UNCHANGED <<status, exc, taskExc>>
     ELSE IF ~db
          THEN pc' = "done" /\ status' = "exit1" /\ UNCHANGED <<exc, taskExc>>
          ELSE IF ~test_data.set
               THEN Propagate("RuntimeError")
               ELSE pc' = "sess_setup" /\ UNCHANGED <<status, exc, taskExc>>
  /\ UNCHANGED <<argv, db, hist, sess, enc, net, loop>>

Header == [header |-> <<"ID", "Class", "Classification", "Match">>]

ExportResultsOpen ==
  /\ pc = "er_open"
  /\ IF classes = {}
     THEN /\ Propagate("RuntimeError")
          /\ UNCHANGED <<fh, codewords, total, correct>>
     ELSE /\ fh' = <<Header>>
          /\ codewords' = get_codewords(classes, NegCode, PosCode)
          /\ total' = 0 /\ correct' = 0
          /\ pc' = "er_loop"
          /\ UNCHANGED <<status, exc, taskExc>>
  /\ UNCHANGED <<argv, db, hist, sess, classes, net, fraction,
                 class_expected, codeword, class_ann>>

\* one iteration of the loop over self.test_data
ExportResultsRow ==
  /\ pc = "er_loop"
  /\ total < Len(test_data.rows)
  /\ total' = total + 1
  /\ LET out == test_data.rows[total + 1]
         exp == get_classification(codewords, out, error)
     IN  IF Cardinality(DOMAIN codewords) # Len(out)
         THEN /\ Propagate("RuntimeError")
              /\ UNCHANGED <<correct, fraction, fh, class_expected, codeword,
                             class_ann>>
         ELSE /\ class_expected' = exp.classes
              /\ IF Len(exp.classes) # 1
                 THEN /\ Propagate("AssertionError")
                      /\ UNCHANGED <<correct, fraction, fh, codeword, class_ann>>
                 ELSE \E cw \in [1..annOut -> Outputs] :
                        LET ann == get_classification(codewords, cw, error)
                            match == Len(ann.classes) > 0
                                     /\ ann.classes[1] = exp.classes[1]
                        IN  /\ codeword' = cw
                            /\ IF ann.exc # "none"
                               THEN /\ Propagate(ann.exc)
                                    /\ UNCHANGED <<correct, fraction, fh,
                                                   class_ann>>
                               ELSE /\ class_ann' = ann.classes
                                    /\ correct' = IF match THEN correct + 1
                                                  ELSE correct
                                    /\ fh' = Append(fh,
                                         [id |-> total + 1,
                                          class |-> exp.classes[1],
                                          classification |-> ann.classes,
                                          match |-> IF match THEN "+" ELSE "-"])
                                    /\ fraction' = <<correct', total'>>
                                    /\ UNCHANGED <<pc, status, exc, taskExc>>
  /\ UNCHANGED <<argv, db, hist, sess, enc, net>>

\* after the loop: the row with the correctly classified fraction
ExportResultsFinal ==
  /\ pc = "er_loop"
  /\ total = Len(test_data.rows)
  /\ IF fraction = <<>>
     THEN Propagate("UnboundLocalError") /\ UNCHANGED fh
     ELSE /\ fh' = Append(fh, [fraction |-> Fraction3(fraction[1], fraction[2])])
          /\ pc' = "exit"
          /\ UNCHANGED <<status, exc, taskExc>>
  /\ UNCHANGED <<argv, db, hist, sess, enc, net, total, correct, fraction,
                 class_expected, codeword, class_ann>>

\* ---- task classify -----------------------------------------------------------
ClsOpenYaml ==
  /\ pc = "cls_conf"
  /\ \E r \in open_yaml(conf) :
       IF r = "none"
       THEN pc' = "cls_new" /\ UNCHANGED <<status, exc, taskExc>>
       ELSE Propagate(r)
  /\ UNCHANGED <<argv, db, hist, sess, enc, net, loop>>

\* ImageClassifier.__init__ up to the with statement: set_config, set_ann
ClsNew ==
  /\ pc = "cls_new"
  /\ \E r \in {"none", "IOError"} :
       IF r = "none"
       THEN /\ \E k \in 1..MaxClasses : annOut' = k
            /\ pc' = "sess_setup"
            /\ UNCHANGED <<status, exc, taskExc>>
       ELSE Propagate(r) /\ UNCHANGED annOut
  /\ UNCHANGED <<argv, db, hist, sess, enc, test_data, loop>>

\* ImageClassifier.classify and the logging.info of line 167
ClsClassify ==
  /\ pc = "cls_classify"
  /\ \E r \in {"none", "IOError"} :
       IF r # "none"
       THEN Propagate(r) /\ UNCHANGED <<codeword, codewords, class_ann>>
       ELSE \E cw \in [1..annOut -> Outputs] :
              LET cws == get_codewords(classes, NegCode, PosCode)
                  res == get_classification(cws, cw, error)
              IN  /\ codeword' = cw
                  /\ codewords' = cws
                  /\ IF res.exc # "none"
                     THEN Propagate(res.exc) /\ UNCHANGED class_ann
                     ELSE /\ class_ann' = res.classes
                          /\ pc' = "exit"
                          /\ UNCHANGED <<status, exc, taskExc>>
  /\ UNCHANGED <<argv, db, hist, sess, classes, net, total, correct, fraction,
                 fh, class_expected>>

\* ---- the final sys.exit() of main --------------------------------------------
Exit ==
  /\ pc = "exit"
  /\ pc' = "done" /\ status' = "exit0"
  /\ UNCHANGED <<argv, db, exc, taskExc, hist, sess, enc, net, loop>>

Next ==
  \/ Main
  \/ DataOpenYaml \/ DataNew \/ ExportWrite \/ DataExcept
  \/ AnnOpenYaml \/ AnnNew \/ AnnTrain \/ AnnExcept
  \/ SessionSetup \/ ExportBody \/ ExportResultsBody \/ ClassifierBody
  \/ SessionCommit \/ SessionRollback \/ SessionClose \/ WithExit
  \/ TestOpenYaml \/ TestNew \/ TestTest \/ TestOutput
  \/ ExportResultsOpen \/ ExportResultsRow \/ ExportResultsFinal
  \/ ClsOpenYaml \/ ClsNew \/ ClsClassify
  \/ Exit

Spec == Init /\ [][Next]_vars

\* ---- properties -------------------------------------------------------------
\* the codewords in use have been computed from the classes of the query
Encoded == codewords # <<>> /\ pc \in {"er_loop", "exit", "done", "data_except"}

\* C1: get_codewords returns exactly one codeword per class; each codeword has
\* length n, holds pos at exactly one index and neg at every other index, and
\* the index holding pos is the position of the class in the ascending order
\* of the class names, so no two classes share a positive index.
C1_Codewords ==
  Encoded =>
    LET n == Cardinality(classes)
    IN  /\ DOMAIN codewords = classes
        /\ \A c \in classes :
             /\ Len(codewords[c]) = n
             /\ \E i \in 1..n :
                  /\ codewords[c][i] = PosCode
                  /\ \A j \in (1..n) \ {i} : codewords[c][j] = NegCode
                  /\ i = 1 + Cardinality({d \in classes : d < c})
        /\ \A c, d \in classes :
             c # d => \A i \in 1..n :
                        ~(codewords[c][i] = PosCode /\ codewords[d][i] = PosCode)

C1_Witness ==
  /\ Encoded
  /\ Cardinality(classes) >= 2
  /\ 1 \notin classes

\* what get_classification has to return for the output cw under threshold err
Decoded(cws, cw, err, R) ==
  LET Hit(c) == \E i \in 1..Len(cw) :
                  cws[c][i] = PosCode
                  /\ (PosCode - cw[i]) * (PosCode - cw[i]) < err
      Out(c) == cw[CHOOSE i \in 1..Len(cw) : cws[c][i] = PosCode]
  IN  /\ Range(R) \subseteq DOMAIN cws
      /\ \A c \in DOMAIN cws : Hit(c) <=> c \in Range(R)
      /\ \A j, k \in 1..Len(R) :
           j < k => /\ R[j] # R[k]
                    /\ \/ Out(R[j]) > Out(R[k])
                       \/ Out(R[j]) = Out(R[k]) /\ R[j] > R[k]

\* C2: when len(codewords) == len(codeword), get_classification returns exactly
\* the classes whose codeword is 1 at an index i with (1 - codeword[i])^2
\* strictly below error, each once, in descending order of the network output
\* and, for equal outputs, descending class name; no other class appears.
C2_Classification ==
  /\ (Encoded /\ codeword # <<>>
        /\ Len(codeword) = Cardinality(DOMAIN codewords))
       => Decoded(codewords, codeword, error, class_ann)
  /\ (Encoded /\ task = "test-ann" /\ total >= 1
        /\ test_data.width = Cardinality(DOMAIN codewords))
       => Decoded(codewords, test_data.rows[total], error, class_expected)

C2_Witness ==
  /\ status = "exit0"
  /\ Len(class_ann) >= 2
  /\ \E i \in 1..Len(codeword) : codeword[i] = 9
  /\ \E i, j \in 1..Len(codeword) : i # j /\ codeword[i] = codeword[j]
  /\ Len(class_ann) < Len(codeword)

\* C3: decoding the codeword of a class c with the codewords of its class set
\* gives the one-element list [c], for every error threshold, so that the
\* assertion len(class_expected) == 1 of export_results holds for every test
\* row that is a codeword.
C3_RoundTrip ==
  (Encoded /\ task = "test-ann" /\ total >= 1)
    => \A c \in classes :
         test_data.rows[total] = codewords[c]
           => class_expected = <<c>> /\ exc # "AssertionError"

\* C4: session_scope commits when the body ends without an exception and then
\* never rolls back; when the body or the commit raises it rolls back and the
\* same exception leaves the with statement; on every path the session is
\* closed exactly once, after the commit or the rollback.
C4_SessionScope ==
  /\ \A i \in 1..Len(session) : session[i] = "close" => i = Len(session)
  /\ pc = "with_exit" =>
       IF sessRaised = "none"
       THEN session = <<"commit", "close">> /\ exc = "none"
       ELSE session = <<"rollback", "close">> /\ exc = sessRaised
  /\ (pc \in {"export_images", "er_open", "er_loop", "cls_classify"})
       => session = <<"commit", "close">>
  /\ (pc = "done" /\ session # <<>>)
       => session \in {<<"commit", "close">>, <<"rollback", "close">>}

C4_Witness ==
  /\ pc = "with_exit"
  /\ sessRaised = "CommitError"
  /\ session = <<"rollback", "close">>

\* C5: for the tasks data and ann, an exception raised by the task's work is
\* logged and leaves main, so the process does not end in the final sys.exit()
\* with a success status after a failed task.
C5_Propagation ==
  (task \in {"data", "ann"} /\ taskExc # "none" /\ pc = "done")
    => status = "uncaught" /\ taskExc \in Range(log)

\* C6: without --conf the task ann reaches MakeAnn.train, and the task
\* test-ann without --output reaches TestAnn.test.
C6_ConfOptional ==
  (pc = "done" /\ ~conf)
    => /\ task = "ann" => "train" \in reached
       /\ (task = "test-ann" /\ ~output) => "test" \in reached

\* C7: export_results writes a complete table for a test data set of any
\* number of samples, none included, when the class query returns a class and
\* the codeword length matches: the header, one row per sample in test-data
\* order, and the row with the fraction; then it ends normally.
C7_CompleteTable ==
  (/\ task = "test-ann" /\ pc = "done" /\ output /\ db
   /\ test_data.set /\ sessRaised = "none" /\ classes # {}
   /\ test_data.width = Cardinality(classes)
   /\ annOut = Cardinality(classes))
    => /\ status = "exit0"
       /\ Len(fh) = Len(test_data.rows) + 2
       /\ fh[1] = Header
       /\ \A i \in 1..Len(test_data.rows) : fh[i + 1].id = i
       /\ fh[Len(fh)] = [fraction |-> Fraction3(correct, total)]

====
